---- MODULE Spec2Model ----
(***************************************************************************)
(* A model of lepp::SmoothObstacleAggregator                               *)
(* (src/src/lepp2/SmoothObstacleAggregator.hpp).                           *)
(*                                                                         *)
(* One action, UpdateObstacles, is one call of updateObstacles: matching,  *)
(* streak update, blend, eviction, promotion and emission, in the order of *)
(* the code.  std::map is a function whose DOMAIN is the key set, the      *)
(* std::list of materialized models is a sequence of list nodes, and a     *)
(* list iterator is the handle of a node.                                  *)
(*                                                                         *)
(* Lengths are integers: one unit is sqrt(0.05)/4, so that the acceptance  *)
(* threshold 0.05 of getMatchByDistance is 16 squared units.  Frames whose *)
(* midpoint blend would leave the integer grid are not fed (BlendExact),   *)
(* and no frame is fed that would take the identity counter past a bound.  *)
(***************************************************************************)
EXTENDS Integers, Sequences, FiniteSets, TLC

\* ---------------------------------------------------------------- bounds
MaxModelId == 2        \* Spec, SpecSingle: identities the counter may hand out
MaxObstacles == 1      \* Spec: observations per frame
MaxFrames == 16        \* Spec: frames fed to one aggregator
FarApart == 8          \* Spec: observations lie at x = 0 and x = FarApart
MatchModelId == 3      \* SpecMatch: identities the counter may hand out
MatchObstacles == 2    \* SpecMatch: observations per frame
MatchFrames == 2       \* SpecMatch: frames fed to one aggregator
SingleFrames == 5      \* SpecSingle: frames fed to one aggregator
SingleCoord == 8       \* SpecSingle: the observation lies at x in 0..SingleCoord
ShapeModelId == 1      \* SpecShape: identities the counter may hand out
ShapeFrames == 31      \* SpecShape: frames fed to one aggregator
OrderModelId == 3      \* SpecOrder: identities the counter may hand out
OrderFrames == 16      \* SpecOrder: frames fed to one aggregator
StepsModelId == 2      \* SpecSteps: identities the counter may hand out
StepsFrames == 12      \* SpecSteps: frames fed to one aggregator
StreakModelId == 2     \* SpecStreak: identities the counter may hand out
StreakObstacles == 2   \* SpecStreak: observations per frame
StreakFrames == 16     \* SpecStreak: frames fed to one aggregator
InvalidModelId == 3    \* SpecInvalid: identities the counter may hand out
InvalidObstacles == 2  \* SpecInvalid: observations per frame
InvalidFrames == 4     \* SpecInvalid: frames fed to one aggregator
MaxSinks == 2          \* SpecSinks: aggregators that may be attached
SinkFrames == 7        \* SpecSinks: frames fed to one aggregator
SinkModelId == 1       \* SpecSinks: identities the counter may hand out

\* ------------------------------------------------------ program constants
AcceptDist == 16       \* "dist <= 0.05", in squared units
InitMinDist == 1000000 \* "min_dist = 1e10": larger than any distance
LOST_LIMIT == 10
FOUND_LIMIT == 5
RefreshPeriod == 30     \* "frame_cnt_ % 30 == 0"

VARIABLES
  aggregators_,          \* std::vector<boost::shared_ptr<ObstacleAggregator> >
  next_model_id_,        \* model_id_t next_model_id_
  tracked_models_,       \* std::map<model_id_t, ObjectModelPtr>
  frames_found_,         \* std::map<model_id_t, int>
  frames_lost_,          \* std::map<model_id_t, int>
  materialized_models_,  \* std::list<ObjectModelPtr>, as a sequence of nodes
  model_idx_in_list_,    \* std::map<model_id_t, list iterator>
  frame_cnt_,            \* int frame_cnt_
  obstacles,             \* argument of the last updateObstacles call
  correspondence,        \* the map matchToPrevious returned in that call
  emitted,               \* the list handed to notifyAggregators in that call
  notified,              \* the updateObstacles calls that call made on the
                         \* attached aggregators, in the order it made them
  steps,                 \* the member functions that call ran, in order
  dropped,               \* identities that call dropped ("DROPPING")
  included,              \* identities that call materialized ("INCLUDING!")
  ever_emitted,          \* identities that some emitted list contained
  empty_run,             \* number of trailing calls with an empty argument
  single_step            \* largest squared distance between the observations
                         \* of consecutive calls while every call had exactly
                         \* one observation, NotSingle once a call had not

vars == <<aggregators_, next_model_id_, tracked_models_, frames_found_,
          frames_lost_, materialized_models_, model_idx_in_list_, frame_cnt_,
          obstacles, correspondence, emitted, notified, steps, dropped,
          included, ever_emitted, empty_run, single_step>>

\* ------------------------------------------------------------- std::map
EmptyMap == [k \in {} |-> 0]

Has(m, k) == k \in DOMAIN m

Put(m, k, v) == [x \in (DOMAIN m) \cup {k} |-> IF x = k THEN v ELSE m[x]]

Erase(m, k) == [x \in (DOMAIN m) \ {k} |-> m[x]]

\* operator[] of a std::map<.., int>: a missing key is value-initialised
At(m, k) == IF k \in DOMAIN m THEN m[k] ELSE 0

MinKey(S) == CHOOSE k \in S : \A o \in S : k <= o

\* ----------------------------------------------------------- Coordinate
\* A coordinate of a point is an integer of the grid or NaN, the value a
\* double takes that is not a number; arithmetic with NaN gives NaN and
\* every comparison with NaN is false.
NaN == -1000000

IsNaN(a) == a = NaN

Add(a, b) == IF IsNaN(a) \/ IsNaN(b) THEN NaN ELSE a + b

Sub(a, b) == IF IsNaN(a) \/ IsNaN(b) THEN NaN ELSE a - b

Div(a, n) == IF IsNaN(a) THEN NaN ELSE a \div n

LessEq(a, b) == ~IsNaN(a) /\ ~IsNaN(b) /\ a <= b

Coordinate(px, py, pz) == [x |-> px, y |-> py, z |-> pz]

Minus(a, b) == Coordinate(Sub(a.x, b.x), Sub(a.y, b.y), Sub(a.z, b.z))

Plus(a, b) == Coordinate(Add(a.x, b.x), Add(a.y, b.y), Add(a.z, b.z))

DivBy(v, n) == Coordinate(Div(v.x, n), Div(v.y, n), Div(v.z, n))

Halved(v) == DivBy(v, 2)

\* The division of v by n is exact on the grid (NaN stays NaN).
Divides(n, v) ==
  /\ IsNaN(v.x) \/ v.x % n = 0
  /\ IsNaN(v.y) \/ v.y % n = 0
  /\ IsNaN(v.z) \/ v.z % n = 0

IsEven(v) == Divides(2, v)

Finite(v) == ~IsNaN(v.x) /\ ~IsNaN(v.y) /\ ~IsNaN(v.z)

SquaredDist(p, q) ==
  IF Finite(p) /\ Finite(q)
  THEN (p.x - q.x) * (p.x - q.x) + (p.y - q.y) * (p.y - q.y)
         + (p.z - q.z) * (p.z - q.z)
  ELSE NaN

\* ----------------------------------------------------------- ObjectModel
\* The geometry variants.  An observation carries geometry only; set_id
\* gives a model its identity.
SphereModel(center) == [kind |-> "sphere", center |-> center]

CapsuleModel(first, second) ==
  [kind |-> "capsule", first |-> first, second |-> second]

CompositeModel(models) == [kind |-> "composite", models |-> models]

set_id(model, model_id) ==
  [f \in (DOMAIN model) \cup {"id"} |-> IF f = "id" THEN model_id ELSE model[f]]

\* The reference point: the centre of a sphere, the middle of the two end
\* points of a capsule, the mean of the reference points of the children of
\* a composite.
RECURSIVE center_point(_)
RECURSIVE SumOfCenters(_)
SumOfCenters(models) ==
  IF models = <<>> THEN Coordinate(0, 0, 0)
  ELSE Plus(center_point(Head(models)), SumOfCenters(Tail(models)))

center_point(model) ==
  IF model.kind = "sphere" THEN model.center
  ELSE IF model.kind = "capsule" THEN Halved(Plus(model.first, model.second))
  ELSE IF model.models = <<>> THEN Coordinate(0, 0, 0)
  ELSE DivBy(SumOfCenters(model.models), Len(model.models))

Observation(p) == SphereModel(p)

OnAxis(S) == {Observation(Coordinate(px, 0, 0)) : px \in S}

FramesOver(S, n) == UNION {[1..k -> OnAxis(S)] : k \in 0..n}

NotSingle == -1

\* ------------------------------------------------------------ nextModelId
\* Mutant: the counter is returned but not advanced.
nextModelIdStuck(next) == [id |-> next, next |-> next]

nextModelId(next) == [id |-> next, next |-> next + 1]

\* ----------------------------------------------------- getMatchByDistance
\* The scan of tracked_models_ in key order; st holds the locals found,
\* min_dist and match.
\* Mutant: the threshold itself is not accepted.
ScanStepStrict(tracked, k, query_point, st) ==
  LET dist == SquaredDist(center_point(tracked[k]), query_point)
      min0 == IF ~st.found THEN dist ELSE st.min_dist
  IN IF LessEq(dist, AcceptDist) /\ dist # AcceptDist
     THEN [found |-> TRUE,
           min_dist |-> IF LessEq(dist, min0) THEN dist ELSE min0,
           match |-> IF LessEq(dist, min0) THEN k ELSE st.match]
     ELSE st

\* Mutant: an equally near model met later does not replace the match.
ScanStepFirstWins(tracked, k, query_point, st) ==
  LET dist == SquaredDist(center_point(tracked[k]), query_point)
  IN IF LessEq(dist, AcceptDist)
     THEN [found |-> TRUE,
           min_dist |-> IF ~st.found \/ LessEq(dist, st.min_dist)
                        THEN dist ELSE st.min_dist,
           match |-> IF ~st.found \/ (LessEq(dist, st.min_dist) /\ dist # st.min_dist)
                     THEN k ELSE st.match]
     ELSE st

ScanStep(tracked, k, query_point, st) ==
  LET dist == SquaredDist(center_point(tracked[k]), query_point)
      min0 == IF ~st.found THEN dist ELSE st.min_dist
  IN IF LessEq(dist, AcceptDist)
     THEN [found |-> TRUE,
           min_dist |-> IF LessEq(dist, min0) THEN dist ELSE min0,
           match |-> IF LessEq(dist, min0) THEN k ELSE st.match]
     ELSE st

RECURSIVE ScanTracked(_, _, _, _)
ScanTracked(tracked, keys, query_point, st) ==
  IF keys = {} THEN st
  ELSE ScanTracked(tracked, keys \ {MinKey(keys)}, query_point,
                   ScanStep(tracked, MinKey(keys), query_point, st))

getMatchByDistance(tracked, next, model) ==
  LET st == ScanTracked(tracked, DOMAIN tracked, center_point(model),
                        [found |-> FALSE, min_dist |-> InitMinDist, match |-> 0])
  IN IF st.found
     THEN [id |-> st.match, next |-> next]
     ELSE nextModelId(next)

\* -------------------------------------------------------- matchToPrevious
\* First loop: i is the 0-based index of the code, new_obstacles[i] is
\* new_obstacles[i + 1] of the sequence.
\* Mutant: a model that is new in the frame is matched against at once.
MatchStepEager(tracked, new_obstacles, i, acc) ==
  LET nif == acc.new_in_frame
      IndexOf(id) == nif[CHOOSE n \in 1..Len(nif) : nif[n][1] = id][2]
      seen == [id \in (DOMAIN tracked) \cup {nif[n][1] : n \in 1..Len(nif)} |->
                IF Has(tracked, id) THEN tracked[id]
                ELSE set_id(new_obstacles[IndexOf(id) + 1], id)]
      r == getMatchByDistance(seen, acc.next, new_obstacles[i + 1])
  IN [correspondence |-> Put(acc.correspondence, r.id, i),
      new_in_frame |-> IF ~Has(seen, r.id)
                       THEN Append(acc.new_in_frame, <<r.id, i>>)
                       ELSE acc.new_in_frame,
      next |-> r.next]

MatchStep(tracked, new_obstacles, i, acc) ==
  LET r == getMatchByDistance(tracked, acc.next, new_obstacles[i + 1])
  IN [correspondence |-> Put(acc.correspondence, r.id, i),
      new_in_frame |-> IF ~Has(tracked, r.id)
                       THEN Append(acc.new_in_frame, <<r.id, i>>)
                       ELSE acc.new_in_frame,
      next |-> r.next]

RECURSIVE MatchLoop(_, _, _, _)
MatchLoop(tracked, new_obstacles, i, acc) ==
  IF i >= Len(new_obstacles) THEN acc
  ELSE MatchLoop(tracked, new_obstacles, i + 1,
                 MatchStep(tracked, new_obstacles, i, acc))

\* Second loop: start tracking every model of new_in_frame.
InsertStep(elem, new_obstacles, s) ==
  LET model_id == elem[1]
      corresp == elem[2]
      \* new_obstacles[corresp] after set_id(model_id)
      model == set_id(new_obstacles[corresp + 1], model_id)
  IN [tracked |-> Put(s.tracked, model_id, model),
      lost |-> Put(s.lost, model_id, 0),
      found |-> Put(s.found, model_id, 0)]

RECURSIVE InsertLoop(_, _, _, _)
InsertLoop(new_in_frame, new_obstacles, n, s) ==
  IF n > Len(new_in_frame) THEN s
  ELSE InsertLoop(new_in_frame, new_obstacles, n + 1,
                  InsertStep(new_in_frame[n], new_obstacles, s))

matchToPrevious(tracked, found, lost, next, new_obstacles) ==
  LET m == MatchLoop(tracked, new_obstacles, 0,
                     [correspondence |-> EmptyMap, new_in_frame |-> <<>>,
                      next |-> next])
      s == InsertLoop(m.new_in_frame, new_obstacles, 1,
                      [tracked |-> tracked, lost |-> lost, found |-> found])
  IN [correspondence |-> m.correspondence, next |-> m.next,
      tracked |-> s.tracked, lost |-> s.lost, found |-> s.found]

\* ------------------------------------------------------ updateLostAndFound
\* The loop over tracked_models_; s holds frames_found_ and frames_lost_.
\* Mutant: the seen count is updated for materialized models too.
LostAndFoundStepAlways(model_id, new_matches, idx, s) ==
  IF Has(new_matches, model_id)
  THEN [found |-> Put(s.found, model_id, At(s.found, model_id) + 1),
        lost |-> Put(s.lost, model_id, 0)]
  ELSE [found |-> Put(s.found, model_id, 0),
        lost |-> Put(s.lost, model_id, At(s.lost, model_id) + 1)]

\* Mutant: the lost count is incremented in every frame, not reset.
LostAndFoundStepBoth(model_id, new_matches, idx, s) ==
  IF Has(new_matches, model_id)
  THEN [found |-> IF ~Has(idx, model_id)
                  THEN Put(s.found, model_id, At(s.found, model_id) + 1)
                  ELSE s.found,
        lost |-> Put(s.lost, model_id, At(s.lost, model_id) + 1)]
  ELSE [found |-> Put(s.found, model_id, 0),
        lost |-> Put(s.lost, model_id, At(s.lost, model_id) + 1)]

\* Mutant: a missed frame does not reset the seen count.
LostAndFoundStepNoReset(model_id, new_matches, idx, s) ==
  IF Has(new_matches, model_id)
  THEN [found |-> IF ~Has(idx, model_id)
                  THEN Put(s.found, model_id, At(s.found, model_id) + 1)
                  ELSE s.found,
        lost |-> Put(s.lost, model_id, 0)]
  ELSE [found |-> Put(s.found, model_id, At(s.found, model_id)),
        lost |-> Put(s.lost, model_id, At(s.lost, model_id) + 1)]

LostAndFoundStep(model_id, new_matches, idx, s) ==
  IF Has(new_matches, model_id)
  THEN [found |-> IF ~Has(idx, model_id)
                  THEN Put(s.found, model_id, At(s.found, model_id) + 1)
                  ELSE s.found,
        lost |-> Put(s.lost, model_id, 0)]
  ELSE [found |-> Put(s.found, model_id, 0),
        lost |-> Put(s.lost, model_id, At(s.lost, model_id) + 1)]

RECURSIVE LostAndFoundLoop(_, _, _, _)
LostAndFoundLoop(keys, new_matches, idx, s) ==
  IF keys = {} THEN s
  ELSE LostAndFoundLoop(keys \ {MinKey(keys)}, new_matches, idx,
                        LostAndFoundStep(MinKey(keys), new_matches, idx, s))

updateLostAndFound(tracked, found, lost, idx, new_matches) ==
  LostAndFoundLoop(DOMAIN tracked, new_matches, idx,
                   [found |-> found, lost |-> lost])

\* ------------------------------------------------------------ BlendVisitor
\* visitSphere and visitCapsule: the visited model is moved by
\* translation_vec.
visitSphere(sphere, translation_vec) ==
  [sphere EXCEPT !.center = Plus(sphere.center, translation_vec)]

visitCapsule(capsule, translation_vec) ==
  [capsule EXCEPT !.first = Plus(capsule.first, translation_vec),
                  !.second = Plus(capsule.second, translation_vec)]

\* Mutant: the visited model is not moved.
BlendVisitorStill(model, translation_vec) == model

BlendVisitor(model, translation_vec) ==
  IF model.kind = "sphere" THEN visitSphere(model, translation_vec)
  ELSE visitCapsule(model, translation_vec)

\* ObjectModel::accept: a primitive hands itself to the visitor, a
\* composite hands every child to it.
RECURSIVE accept(_, _)
accept(model, translation_vec) ==
  IF model.kind = "composite"
  THEN [model EXCEPT !.models =
          [n \in 1..Len(model.models) |-> accept(model.models[n], translation_vec)]]
  ELSE BlendVisitor(model, translation_vec)

\* ------------------------------------------------------------ adaptTracked
\* dynamic_cast<CompositeModel*>
IsComposite(model) == model.kind = "composite"

\* Mutant: the child shapes are replaced in every frame.
AdaptStepEveryFrame(model_id, i, new_obstacles, frame_cnt, tracked) ==
  LET translation_vec ==
        Halved(Minus(center_point(new_obstacles[i + 1]),
                     center_point(tracked[model_id])))
      blended == accept(tracked[model_id], translation_vec)
  IN Put(tracked, model_id,
         IF IsComposite(blended) /\ IsComposite(new_obstacles[i + 1])
         THEN [blended EXCEPT !.models = new_obstacles[i + 1].models]
         ELSE blended)

AdaptStep(model_id, i, new_obstacles, frame_cnt, tracked) ==
  LET translation_vec ==
        Halved(Minus(center_point(new_obstacles[i + 1]),
                     center_point(tracked[model_id])))
      blended == accept(tracked[model_id], translation_vec)
  IN Put(tracked, model_id,
         IF /\ frame_cnt % RefreshPeriod = 0
            /\ IsComposite(blended) /\ IsComposite(new_obstacles[i + 1])
         THEN [blended EXCEPT !.models = new_obstacles[i + 1].models]
         ELSE blended)

RECURSIVE AdaptLoop(_, _, _, _, _)
AdaptLoop(keys, corr, new_obstacles, frame_cnt, tracked) ==
  IF keys = {} THEN tracked
  ELSE AdaptLoop(keys \ {MinKey(keys)}, corr, new_obstacles, frame_cnt,
                 AdaptStep(MinKey(keys), corr[MinKey(keys)], new_obstacles,
                           frame_cnt, tracked))

adaptTracked(tracked, corr, new_obstacles, frame_cnt) ==
  AdaptLoop(DOMAIN corr, corr, new_obstacles, frame_cnt, tracked)

\* The divisions of adaptTracked and of the reference points it reads are
\* exact on the grid.
RECURSIVE CenterExact(_)
CenterExact(model) ==
  IF model.kind = "sphere" THEN TRUE
  ELSE IF model.kind = "capsule" THEN IsEven(Plus(model.first, model.second))
  ELSE /\ \A n \in 1..Len(model.models) : CenterExact(model.models[n])
       /\ model.models # <<>> =>
            Divides(Len(model.models), SumOfCenters(model.models))

BlendExact(tracked, corr, new_obstacles) ==
  /\ \A n \in 1..Len(new_obstacles) : CenterExact(new_obstacles[n])
  /\ \A model_id \in DOMAIN corr :
       IsEven(Minus(center_point(new_obstacles[corr[model_id] + 1]),
                    center_point(tracked[model_id])))

\* ---------------------------------------------------------------- std::list
\* A node is [node |-> handle, model |-> id of the model pointed to].
NodesOf(list) == {list[n].node : n \in 1..Len(list)}

ModelsOf(list) == {list[n].model : n \in 1..Len(list)}

FreshNode(list) == CHOOSE h \in 0..Len(list) : h \notin NodesOf(list)

PushBack(list, model_id) ==
  Append(list, [node |-> FreshNode(list), model |-> model_id])

\* Mutant: the last node is moved to the place of the erased one.
ListEraseSwap(list, h) ==
  LET at == CHOOSE n \in 1..Len(list) : list[n].node = h
  IN IF \A n \in 1..Len(list) : list[n].node # h THEN list
     ELSE [n \in 1..(Len(list) - 1) |->
             IF n = at THEN list[Len(list)] ELSE list[n]]

RECURSIVE ListErase(_, _)
ListErase(list, h) ==
  IF list = <<>> THEN <<>>
  ELSE IF Head(list).node = h THEN Tail(list)
  ELSE <<Head(list)>> \o ListErase(Tail(list), h)

\* --------------------------------------------------------- dropLostObjects
\* The loop over frames_lost_; s holds the five containers it edits.
\* Mutant: the limit of the log message, "not found 5 times in a row".
DropStepFive(k, s) ==
  IF s.lost[k] >= FOUND_LIMIT
  THEN [tracked |-> IF Has(s.tracked, k) THEN Erase(s.tracked, k) ELSE s.tracked,
        list |-> IF Has(s.idx, k) THEN ListErase(s.list, s.idx[k]) ELSE s.list,
        idx |-> IF Has(s.idx, k) THEN Erase(s.idx, k) ELSE s.idx,
        found |-> IF Has(s.found, k) THEN Erase(s.found, k) ELSE s.found,
        lost |-> Erase(s.lost, k)]
  ELSE s

\* Mutant: a model is dropped only after the limit has been exceeded.
DropStepLate(k, s) ==
  IF s.lost[k] > LOST_LIMIT
  THEN [tracked |-> IF Has(s.tracked, k) THEN Erase(s.tracked, k) ELSE s.tracked,
        list |-> IF Has(s.idx, k) THEN ListErase(s.list, s.idx[k]) ELSE s.list,
        idx |-> IF Has(s.idx, k) THEN Erase(s.idx, k) ELSE s.idx,
        found |-> IF Has(s.found, k) THEN Erase(s.found, k) ELSE s.found,
        lost |-> Erase(s.lost, k)]
  ELSE s

\* Mutant: the found counter of a dropped model is left behind.
DropStepPartial(k, s) ==
  IF s.lost[k] >= LOST_LIMIT
  THEN [tracked |-> IF Has(s.tracked, k) THEN Erase(s.tracked, k) ELSE s.tracked,
        list |-> IF Has(s.idx, k) THEN ListErase(s.list, s.idx[k]) ELSE s.list,
        idx |-> IF Has(s.idx, k) THEN Erase(s.idx, k) ELSE s.idx,
        found |-> s.found,
        lost |-> Erase(s.lost, k)]
  ELSE s

\* Mutant: a dropped model is left in tracked_models_.
DropStepKeepTracked(k, s) ==
  IF s.lost[k] >= LOST_LIMIT
  THEN [tracked |-> s.tracked,
        list |-> IF Has(s.idx, k) THEN ListErase(s.list, s.idx[k]) ELSE s.list,
        idx |-> IF Has(s.idx, k) THEN Erase(s.idx, k) ELSE s.idx,
        found |-> IF Has(s.found, k) THEN Erase(s.found, k) ELSE s.found,
        lost |-> Erase(s.lost, k)]
  ELSE s

DropStep(k, s) ==
  IF s.lost[k] >= LOST_LIMIT
  THEN [tracked |-> IF Has(s.tracked, k) THEN Erase(s.tracked, k) ELSE s.tracked,
        list |-> IF Has(s.idx, k) THEN ListErase(s.list, s.idx[k]) ELSE s.list,
        idx |-> IF Has(s.idx, k) THEN Erase(s.idx, k) ELSE s.idx,
        found |-> IF Has(s.found, k) THEN Erase(s.found, k) ELSE s.found,
        lost |-> Erase(s.lost, k)]
  ELSE s

RECURSIVE DropLoop(_, _)
DropLoop(keys, s) ==
  IF keys = {} THEN s
  ELSE DropLoop(keys \ {MinKey(keys)}, DropStep(MinKey(keys), s))

dropLostObjects(tracked, found, lost, list, idx) ==
  DropLoop(DOMAIN lost, [tracked |-> tracked, found |-> found, lost |-> lost,
                         list |-> list, idx |-> idx])

\* -------------------------------------------------- materializeFoundObjects
\* The loop over frames_found_; s holds the three containers it edits.
\* Mutant: promotion one frame late.
MaterializeStepLate(model_id, s) ==
  LET seen_count == s.found[model_id]
      pos == FreshNode(s.list)
  IN IF seen_count > FOUND_LIMIT
     THEN [list |-> PushBack(s.list, model_id),
           idx |-> Put(s.idx, model_id, pos),
           found |-> Erase(s.found, model_id)]
     ELSE s

\* Mutant: the seen count of a promoted model is left in frames_found_.
MaterializeStepKeep(model_id, s) ==
  LET seen_count == s.found[model_id]
      pos == FreshNode(s.list)
  IN IF seen_count >= FOUND_LIMIT
     THEN [list |-> PushBack(s.list, model_id),
           idx |-> Put(s.idx, model_id, pos),
           found |-> s.found]
     ELSE s

MaterializeStep(model_id, s) ==
  LET seen_count == s.found[model_id]
      pos == FreshNode(s.list)
  IN IF seen_count >= FOUND_LIMIT
     THEN [list |-> PushBack(s.list, model_id),
           idx |-> Put(s.idx, model_id, pos),
           found |-> Erase(s.found, model_id)]
     ELSE s

RECURSIVE MaterializeLoop(_, _)
MaterializeLoop(keys, s) ==
  IF keys = {} THEN s
  ELSE MaterializeLoop(keys \ {MinKey(keys)}, MaterializeStep(MinKey(keys), s))

materializeFoundObjects(found, list, idx) ==
  MaterializeLoop(DOMAIN found, [found |-> found, list |-> list, idx |-> idx])

\* -------------------------------------------------------- copyMaterialized
Elems(seq) == {seq[n] : n \in 1..Len(seq)}

copyMaterialized(list) == [n \in 1..Len(list) |-> list[n].model]

\* -------------------------------------------------------- notifyAggregators
\* The calls aggregator->updateObstacles(obstacles) of the loop, in its
\* order; frame is the number of the frame in which they are made.
\* Mutant: the aggregator attached last is called first.
notifyAggregatorsReversed(aggregators, frame, smooth_obstacles) ==
  [n \in 1..Len(aggregators) |->
     [aggregator |-> aggregators[Len(aggregators) + 1 - n], frame |-> frame,
      obstacles |-> smooth_obstacles]]

notifyAggregators(aggregators, frame, smooth_obstacles) ==
  [n \in 1..Len(aggregators) |->
     [aggregator |-> aggregators[n], frame |-> frame,
      obstacles |-> smooth_obstacles]]

\* ------------------------------------------------ attachObstacleAggregator
\* "Attach a new ObstacleAggregator": one that is not attached yet.
attachObstacleAggregator(aggregator) ==
  /\ aggregator \notin {aggregators_[n] : n \in 1..Len(aggregators_)}
  /\ aggregators_' = Append(aggregators_, aggregator)
  /\ UNCHANGED <<next_model_id_, tracked_models_, frames_found_, frames_lost_,
                 materialized_models_, model_idx_in_list_, frame_cnt_,
                 obstacles, correspondence, emitted, notified, steps,
                 dropped, included, ever_emitted, empty_run, single_step>>

\* --------------------------------------------------------- updateObstacles
\* The member functions updateObstacles calls, in the order of its body.
\* Mutant: the lost objects are dropped before the tracked ones are adapted.
StepOrderDropFirst ==
  <<"matchToPrevious", "updateLostAndFound", "dropLostObjects",
    "adaptTracked", "materializeFoundObjects", "copyMaterialized",
    "notifyAggregators">>

StepOrder ==
  <<"matchToPrevious", "updateLostAndFound", "adaptTracked",
    "dropLostObjects", "materializeFoundObjects", "copyMaterialized",
    "notifyAggregators">>

\* The observation history kept for the statements about single obstacles.
SingleStep(new_obstacles) ==
  IF single_step = NotSingle \/ Len(new_obstacles) # 1 THEN NotSingle
  ELSE IF frame_cnt_ = 0 THEN 0
  ELSE LET d == SquaredDist(center_point(new_obstacles[1]),
                            center_point(obstacles[1]))
       IN IF d > single_step THEN d ELSE single_step

\* One call.  m, u, a, d and f are the values of the members after
\* matchToPrevious, updateLostAndFound, adaptTracked, dropLostObjects and
\* materializeFoundObjects (each bound once, as a local is).
UpdateObstacles(new_obstacles, max_model_id) ==
  \E m \in {matchToPrevious(tracked_models_, frames_found_, frames_lost_,
                            next_model_id_, new_obstacles)} :
  \E u \in {updateLostAndFound(m.tracked, m.found, m.lost, model_idx_in_list_,
                               m.correspondence)} :
  \E a \in {adaptTracked(m.tracked, m.correspondence, new_obstacles,
                         frame_cnt_ + 1)} :
  \E d \in {dropLostObjects(a, u.found, u.lost, materialized_models_,
                            model_idx_in_list_)} :
  \E f \in {materializeFoundObjects(d.found, d.list, d.idx)} :
  \E smooth_obstacles \in {copyMaterialized(f.list)} :
    /\ m.next <= max_model_id
    /\ BlendExact(m.tracked, m.correspondence, new_obstacles)
    /\ frame_cnt_' = frame_cnt_ + 1
    /\ next_model_id_' = m.next
    /\ tracked_models_' = d.tracked
    /\ frames_found_' = f.found
    /\ frames_lost_' = d.lost
    /\ materialized_models_' = f.list
    /\ model_idx_in_list_' = f.idx
    /\ obstacles' = new_obstacles
    /\ correspondence' = m.correspondence
    /\ emitted' = smooth_obstacles
    /\ notified' = notifyAggregators(aggregators_, frame_cnt_ + 1, smooth_obstacles)
    /\ steps' = StepOrder
    /\ dropped' = (DOMAIN u.lost) \ (DOMAIN d.lost)
    /\ included' = (DOMAIN f.idx) \ (DOMAIN d.idx)
    /\ aggregators_' = aggregators_
    /\ ever_emitted' = ever_emitted \cup Elems(smooth_obstacles)
    /\ empty_run' = IF new_obstacles = <<>> THEN empty_run + 1 ELSE 0
    /\ single_step' = SingleStep(new_obstacles)

\* ------------------------------------------------------------- constructor
Init ==
  /\ aggregators_ = <<>>
  /\ notified = <<>>
  /\ steps = <<>>
  /\ dropped = {}
  /\ included = {}
  /\ next_model_id_ = 0
  /\ frame_cnt_ = 0
  /\ tracked_models_ = EmptyMap
  /\ frames_found_ = EmptyMap
  /\ frames_lost_ = EmptyMap
  /\ materialized_models_ = <<>>
  /\ model_idx_in_list_ = EmptyMap
  /\ obstacles = <<>>
  /\ correspondence = EmptyMap
  /\ emitted = <<>>
  /\ ever_emitted = {}
  /\ empty_run = 0
  /\ single_step = 0

\* Spec: obstacles far apart, long runs (promotion and eviction happen).
Frame ==
  /\ frame_cnt_ < MaxFrames
  /\ \E new_obstacles \in FramesOver({0, FarApart}, MaxObstacles) :
       UpdateObstacles(new_obstacles, MaxModelId)

Next == Frame

Spec == Init /\ [][Next]_vars

\* SpecMatch: obstacles close to each other, at x = 0, 4 and 8, short runs.
MatchPlaces == {0, 4, 8}

\* The query points of the statements about getMatchByDistance.
QueryPoints == 0..12

MatchFrame ==
  /\ frame_cnt_ < MatchFrames
  /\ \E new_obstacles \in FramesOver(MatchPlaces, MatchObstacles) :
       UpdateObstacles(new_obstacles, MatchModelId)

NextMatch == MatchFrame

SpecMatch == Init /\ [][NextMatch]_vars

\* SpecSingle: one observation per frame, anywhere on the grid.
SingleFrame ==
  /\ frame_cnt_ < SingleFrames
  /\ \E px \in 0..SingleCoord :
       UpdateObstacles(<<Observation(Coordinate(px, 0, 0))>>, MaxModelId)

NextSingle == SingleFrame

SpecSingle == Init /\ [][NextSingle]_vars

\* SpecShape: at most one observation per frame, of every geometry variant,
\* with its reference point at x = 0 or x = 4, and runs long enough for the
\* refresh of composites.
SphereAt(px) == SphereModel(Coordinate(px, 0, 0))

CapsuleAt(px) == CapsuleModel(Coordinate(px - 2, 0, 0), Coordinate(px + 2, 0, 0))

ShapesAt(px) ==
  {SphereAt(px), CapsuleAt(px),
   CompositeModel(<<SphereAt(px)>>),
   CompositeModel(<<SphereAt(px - 2), CapsuleAt(px + 2)>>)}

ShapeFrame ==
  /\ frame_cnt_ < ShapeFrames
  /\ \E new_obstacles \in
         {<<>>} \cup {<<o>> : o \in ShapesAt(0) \cup ShapesAt(4)} :
       UpdateObstacles(new_obstacles, ShapeModelId)

NextShape == ShapeFrame

SpecShape == Init /\ [][NextShape]_vars

\* SpecSinks: aggregators are attached at any time, before and between
\* frames of at most one observation at one place.
SinkFrame ==
  /\ frame_cnt_ < SinkFrames
  /\ \E new_obstacles \in FramesOver({0}, 1) :
       UpdateObstacles(new_obstacles, SinkModelId)

Attach ==
  \E aggregator \in 1..MaxSinks : attachObstacleAggregator(aggregator)

NextSinks == SinkFrame \/ Attach

SpecSinks == Init /\ [][NextSinks]_vars

\* SpecInvalid: observations at x = 0 and observations whose reference
\* point is not a number.
InvalidFrame ==
  /\ frame_cnt_ < InvalidFrames
  /\ \E new_obstacles \in FramesOver({0, NaN}, InvalidObstacles) :
       UpdateObstacles(new_obstacles, InvalidModelId)

NextInvalid == InvalidFrame

SpecInvalid == Init /\ [][NextInvalid]_vars

\* SpecStreak: up to StreakObstacles observations per frame, all at one
\* place, and long runs.
StreakFrame ==
  /\ frame_cnt_ < StreakFrames
  /\ \E new_obstacles \in FramesOver({0}, StreakObstacles) :
       UpdateObstacles(new_obstacles, StreakModelId)

NextStreak == StreakFrame

SpecStreak == Init /\ [][NextStreak]_vars

\* SpecOrder: three obstacles far apart; a frame has the observations of
\* all of them or of all but one, in the order of their places.
OrderPlaces == {0, 8, 16}

RECURSIVE PlacesInOrder(_)
PlacesInOrder(S) ==
  IF S = {} THEN <<>>
  ELSE <<SphereAt(MinKey(S))>> \o PlacesInOrder(S \ {MinKey(S)})

OrderFrame ==
  /\ frame_cnt_ < OrderFrames
  /\ \E S \in {T \in SUBSET OrderPlaces :
                 Cardinality(T) >= Cardinality(OrderPlaces) - 1} :
       UpdateObstacles(PlacesInOrder(S), OrderModelId)

NextOrder == OrderFrame

SpecOrder == Init /\ [][NextOrder]_vars

\* SpecSteps: at most one observation per frame, of an obstacle that moves
\* between x = 0 and x = 4 or of one far from it, at x = 16.
StepsFrame ==
  /\ frame_cnt_ < StepsFrames
  /\ \E new_obstacles \in FramesOver({0, 4, 16}, 1) :
       UpdateObstacles(new_obstacles, StepsModelId)

NextSteps == StepsFrame

SpecSteps == Init /\ [][NextSteps]_vars

\* ================================================================ claims
\* C1 (promotion boundary).  An identity whose found-streak is
\* FOUND_LIMIT - 1 after a frame has been in no emitted list so far; an
\* unconfirmed identity with found-streak FOUND_LIMIT - 1 that is matched
\* in a frame (its streak reaches FOUND_LIMIT there) is in the list emitted
\* by that frame; one obstacle observed alone at one place from frame 1 on
\* gives an empty list in frames 1..4 and a list of one in frame 5.
C1_PromotionBoundary ==
  [][ /\ \A id \in DOMAIN frames_found_' :
           frames_found_'[id] = FOUND_LIMIT - 1 => id \notin ever_emitted'
      /\ \A id \in DOMAIN frames_found_ :
           (/\ frames_found_[id] = FOUND_LIMIT - 1
            /\ ~Has(model_idx_in_list_, id)
            /\ Has(correspondence', id))
           => id \in Elems(emitted')
      /\ (single_step' = 0 /\ frame_cnt_' < FOUND_LIMIT) => Len(emitted') = 0
      /\ (single_step' = 0 /\ frame_cnt_' = FOUND_LIMIT) => Len(emitted') = 1
    ]_vars

\* The fifth frame of one obstacle observed alone at one place.
C1_Witness ==
  /\ single_step = 0
  /\ frame_cnt_ = FOUND_LIMIT
  /\ emitted = <<0>>
  /\ ~Has(frames_found_, 0)

\* C2 (eviction boundary).  An identity whose lost-streak is LOST_LIMIT - 1
\* after a frame is still tracked, has both counters and, if it was ever
\* emitted, is in the list emitted by that frame; an identity whose
\* lost-streak is LOST_LIMIT - 1 and that is not matched in a frame is, after
\* that frame, in none of the five containers nor in the emitted list; every
\* identity of an emitted list is tracked and has its lost counter.
C2_EvictionBoundary ==
  [][ /\ \A id \in DOMAIN frames_lost_' :
           frames_lost_'[id] = LOST_LIMIT - 1 =>
             /\ Has(tracked_models_', id)
             /\ Has(frames_found_', id)
             /\ id \in ever_emitted' => id \in Elems(emitted')
      /\ \A id \in DOMAIN frames_lost_ :
           (frames_lost_[id] = LOST_LIMIT - 1 /\ ~Has(correspondence', id)) =>
             /\ ~Has(tracked_models_', id)
             /\ ~Has(frames_found_', id)
             /\ ~Has(frames_lost_', id)
             /\ ~Has(model_idx_in_list_', id)
             /\ id \notin ModelsOf(materialized_models_')
             /\ id \notin Elems(emitted')
      /\ \A id \in Elems(emitted') :
           Has(tracked_models_', id) /\ Has(frames_lost_', id)
    ]_vars

\* A confirmed identity has been evicted.
C2_Witness ==
  \E id \in ever_emitted :
    /\ ~Has(tracked_models_, id)
    /\ ~Has(frames_lost_, id)
    /\ id \notin Elems(emitted)

\* C4 (identity monotonicity).  The identities a frame starts to track are
\* the values the counter had during that frame: at least the counter
\* before the frame (which exceeds every identity handed out before), below
\* the counter after it, and as many as the counter advanced.  A
\* correspondence entry is for an identity tracked before the frame or for
\* one of these, so never for an evicted one.
C4_IdentityMonotonic ==
  [][ LET fresh == (DOMAIN tracked_models_') \ (DOMAIN tracked_models_) IN
      /\ next_model_id_' >= next_model_id_
      /\ \A id \in (DOMAIN tracked_models_) \cup ever_emitted : id < next_model_id_
      /\ \A id \in fresh : next_model_id_ <= id /\ id < next_model_id_'
      /\ Cardinality(fresh) = next_model_id_' - next_model_id_
      /\ \A id \in DOMAIN correspondence' :
           Has(tracked_models_, id) \/ id \in fresh
      /\ \A id \in DOMAIN tracked_models_' : tracked_models_'[id].id = id
    ]_vars

\* Identity 0 has been evicted and identity 1 was handed out in this frame.
C4_Witness ==
  /\ next_model_id_ = 2
  /\ DOMAIN tracked_models_ = {1}
  /\ frame_cnt_ = LOST_LIMIT + 2
  /\ empty_run = 0
  /\ frames_found_ = (1 :> 1)

\* C3 as stated (identity stability).  While every frame has had exactly
\* one observation and consecutive observations were less than the
\* acceptance threshold apart (squared), identity 0 is the only identity
\* ever allocated and the observation of the frame is matched to it.
C3_Original ==
  (frame_cnt_ >= 1 /\ single_step # NotSingle /\ single_step < AcceptDist)
    => (next_model_id_ = 1 /\ correspondence = (0 :> 0))

\* C3 as amended.  The same, when consecutive observations were at most a
\* quarter of the acceptance threshold apart (squared), that is at most
\* half of its square root in distance.
C3_StableIdentity ==
  (frame_cnt_ >= 1 /\ single_step # NotSingle /\ 4 * single_step <= AcceptDist)
    => (next_model_id_ = 1 /\ correspondence = (0 :> 0))

\* The obstacle has moved by steps of up to half the square root of the
\* threshold and the tracked model has followed it.
C3_Witness ==
  /\ 4 * single_step = AcceptDist
  /\ frame_cnt_ >= 4
  /\ next_model_id_ = 1
  /\ Has(tracked_models_, 0)
  /\ tracked_models_[0].center.x >= 3

\* C5 (deferred insertion).  Every correspondence entry of a frame is for an
\* identity tracked before the frame, or for a fresh identity whose
\* observation is farther than the threshold from every model tracked
\* before the frame; two observations of one frame that are both that far
\* from every model tracked before get two distinct fresh identities; a
\* fresh identity is tracked with the geometry of its observation.
C5_DeferredInsertion ==
  [][ LET Far(i) == \A id \in DOMAIN tracked_models_ :
                      SquaredDist(tracked_models_[id].center,
                                  obstacles'[i].center) > AcceptDist
          fresh == (DOMAIN tracked_models_') \ (DOMAIN tracked_models_)
      IN
      /\ \A id \in DOMAIN correspondence' :
           \/ Has(tracked_models_, id)
           \/ id \in fresh /\ Far(correspondence'[id] + 1)
      /\ \A i, j \in 1..Len(obstacles') :
           (i # j /\ Far(i) /\ Far(j)) =>
             \E a, b \in fresh :
               /\ a # b
               /\ correspondence'[a] = i - 1
               /\ correspondence'[b] = j - 1
      /\ \A a \in fresh :
           /\ Has(correspondence', a)
           /\ tracked_models_'[a].center = obstacles'[correspondence'[a] + 1].center
    ]_vars

\* With identity 0 tracked since frame 1, frame 2 brought two observations
\* within the threshold of each other and both became new identities.
C5_Witness ==
  /\ frame_cnt_ = 2
  /\ next_model_id_ = 3
  /\ DOMAIN tracked_models_ = {0, 1, 2}
  /\ DOMAIN correspondence = {1, 2}
  /\ frames_found_[1] = 1 /\ frames_found_[2] = 1
  /\ SquaredDist(tracked_models_[1].center, tracked_models_[2].center) <= AcceptDist

\* C6 as stated (duplicate-match policy).  When two or more observations
\* of a frame each have the same tracked identity as their only nearest
\* model within the threshold, the correspondence entry of that identity is
\* for one of them that is nearest to it, and each of the others has the
\* correspondence entry of a fresh identity.
C6_CloserKept ==
  [][ \A id \in DOMAIN tracked_models_ :
        LET Dist(o, i) == SquaredDist(tracked_models_[o].center,
                                     obstacles'[i].center)
            Best(i) == /\ Dist(id, i) <= AcceptDist
                       /\ \A o \in (DOMAIN tracked_models_) \ {id} :
                            Dist(o, i) > Dist(id, i)
            cands == {i \in 1..Len(obstacles') : Best(i)}
        IN Cardinality(cands) >= 2 =>
             /\ Has(correspondence', id)
             /\ correspondence'[id] + 1 \in cands
             /\ \A i \in cands : Dist(id, correspondence'[id] + 1) <= Dist(id, i)
             /\ \A i \in cands \ {correspondence'[id] + 1} :
                  \E a \in (DOMAIN correspondence') \ (DOMAIN tracked_models_) :
                    correspondence'[a] = i - 1
    ]_vars

\* C7 (matcher selection).  In every reachable state and for every query
\* point of the grid: if some tracked model is within the threshold
\* (boundary included), getMatchByDistance returns a tracked identity of
\* least squared distance and leaves the counter alone; if none is, it
\* returns the counter and advances it by one.
C7_MatcherSelection ==
  \A px \in QueryPoints :
    LET q == Observation(Coordinate(px, 0, 0))
        r == getMatchByDistance(tracked_models_, next_model_id_, q)
        Dist(id) == SquaredDist(tracked_models_[id].center, q.center)
        cands == {id \in DOMAIN tracked_models_ : Dist(id) <= AcceptDist}
    IN /\ cands # {} =>
            /\ r.id \in cands
            /\ \A c \in cands : Dist(r.id) <= Dist(c)
            /\ r.next = next_model_id_
       /\ cands = {} =>
            /\ r.id = next_model_id_
            /\ r.next = next_model_id_ + 1

\* A frame matched an observation that was exactly at the threshold (the
\* blend has since halved the distance) while a second model was tracked.
C7_Witness ==
  \E id \in DOMAIN correspondence :
    /\ frames_found_[id] = 2
    /\ 4 * SquaredDist(tracked_models_[id].center,
                        obstacles[correspondence[id] + 1].center) = AcceptDist
    /\ Cardinality(DOMAIN tracked_models_) >= 2

\* C8 (confirmed-set consistency).  After every frame: every node of the
\* materialized list points to a tracked model; the identities with an
\* entry in the position index are exactly the identities of the list;
\* each of them has exactly one node, the one its index entry names; and
\* the emitted list is the list of these models.
C8_ConfirmedSetConsistent ==
  /\ ModelsOf(materialized_models_) \subseteq DOMAIN tracked_models_
  /\ DOMAIN model_idx_in_list_ = ModelsOf(materialized_models_)
  /\ \A id \in DOMAIN model_idx_in_list_ :
       /\ Cardinality({n \in 1..Len(materialized_models_) :
                         materialized_models_[n].model = id}) = 1
       /\ \E n \in 1..Len(materialized_models_) :
            /\ materialized_models_[n].model = id
            /\ materialized_models_[n].node = model_idx_in_list_[id]
  /\ Cardinality(NodesOf(materialized_models_)) = Len(materialized_models_)
  /\ emitted = copyMaterialized(materialized_models_)

\* Two identities are confirmed; one of them has missed frames since its
\* confirmation and is matched again in this frame.
C8_Witness ==
  \E id \in DOMAIN model_idx_in_list_ :
    /\ Len(materialized_models_) = 2
    /\ Has(frames_found_, id)
    /\ Has(correspondence, id)
    /\ frame_cnt_ >= 2 * FOUND_LIMIT + 1
    /\ empty_run = 0

\* C9 (disappearance hysteresis).  An identity of the emitted list is in
\* the list emitted by the next frame whenever it is matched in that frame
\* and whenever its lost-streak was below LOST_LIMIT - 1; it is absent
\* from the next list only if its lost-streak was LOST_LIMIT - 1 and it was
\* not matched, and then it is no longer tracked; as long as it is tracked
\* it is emitted.
C9_Hysteresis ==
  [][ \A id \in Elems(emitted) :
        /\ Has(correspondence', id) => id \in Elems(emitted')
        /\ frames_lost_[id] < LOST_LIMIT - 1 =>
             /\ id \in Elems(emitted')
             /\ Has(tracked_models_', id)
        /\ id \notin Elems(emitted') =>
             /\ frames_lost_[id] = LOST_LIMIT - 1
             /\ ~Has(correspondence', id)
             /\ ~Has(tracked_models_', id)
        /\ Has(tracked_models_', id) => id \in Elems(emitted')
    ]_vars

\* A confirmed identity that has missed LOST_LIMIT - 1 frames is emitted.
C9_Witness ==
  \E id \in Elems(emitted) :
    /\ frames_lost_[id] = LOST_LIMIT - 1
    /\ ~Has(correspondence, id)

\* C10 (empty-input stability).  A frame without observations leaves the
\* counter alone, starts no track, leaves every found counter at 0, adds
\* nothing to the emitted list, and for every tracked identity either adds
\* one to its lost-streak (geometry untouched) or, when that reaches
\* LOST_LIMIT, drops it.  After LOST_LIMIT or more such frames in a row all
\* five containers and the emitted list are empty.
C10_EmptyInput ==
  [][ /\ obstacles' = <<>> =>
           /\ next_model_id_' = next_model_id_
           /\ correspondence' = EmptyMap
           /\ (DOMAIN tracked_models_') \subseteq (DOMAIN tracked_models_)
           /\ \A id \in DOMAIN frames_found_' : frames_found_'[id] = 0
           /\ Elems(emitted') \subseteq Elems(emitted)
           /\ ever_emitted' = ever_emitted
           /\ \A id \in DOMAIN tracked_models_ :
                IF frames_lost_[id] + 1 < LOST_LIMIT
                THEN /\ Has(tracked_models_', id)
                     /\ frames_lost_'[id] = frames_lost_[id] + 1
                     /\ tracked_models_'[id] = tracked_models_[id]
                ELSE ~Has(tracked_models_', id)
      /\ empty_run' >= LOST_LIMIT =>
           /\ tracked_models_' = EmptyMap
           /\ frames_found_' = EmptyMap
           /\ frames_lost_' = EmptyMap
           /\ materialized_models_' = <<>>
           /\ model_idx_in_list_' = EmptyMap
           /\ emitted' = <<>>
    ]_vars

\* Empty frames have purged a state that held a confirmed identity, and
\* one more empty frame has been fed.
C10_Witness ==
  /\ empty_run = LOST_LIMIT + 1
  /\ ever_emitted # {}
  /\ tracked_models_ = EmptyMap
  /\ emitted = <<>>

\* A geometry moved as a whole: the centre of a sphere, both end points of
\* a capsule, every child of a composite.
RECURSIVE Translated(_, _)
Translated(model, t) ==
  IF model.kind = "sphere"
  THEN [model EXCEPT !.center = Plus(model.center, t)]
  ELSE IF model.kind = "capsule"
  THEN [model EXCEPT !.first = Plus(model.first, t),
                     !.second = Plus(model.second, t)]
  ELSE [model EXCEPT !.models =
          [n \in 1..Len(model.models) |-> Translated(model.models[n], t)]]

\* C11 as stated (midpoint blend).  In every frame and for every identity
\* with a correspondence entry, the tracked reference point after the frame
\* is old_center + (new_center - old_center) / 2, and a tracked sphere or
\* capsule is the old one with its centre or both its end points moved by
\* that translation (for an identity created in the frame the old geometry
\* is its observation); the geometry of a tracked identity without an entry
\* is unchanged.
C11_MidpointBlend ==
  [][ /\ \A id \in DOMAIN correspondence' :
         \A obs \in {obstacles'[correspondence'[id] + 1]} :
         \A old \in {IF Has(tracked_models_, id) THEN tracked_models_[id]
                     ELSE set_id(obs, id)} :
         \A t \in {Halved(Minus(center_point(obs), center_point(old)))} :
           /\ Has(tracked_models_', id)
           /\ center_point(tracked_models_'[id]) = Plus(center_point(old), t)
           /\ ~IsComposite(old) => tracked_models_'[id] = Translated(old, t)
      /\ \A id \in (DOMAIN tracked_models_') \ (DOMAIN correspondence') :
           tracked_models_'[id] = tracked_models_[id]
    ]_vars

\* C16 (composite refresh).  After every frame the variant of every tracked
\* geometry is what it was; the child shapes of a tracked composite are
\* those of its observation if the frame number is a multiple of
\* RefreshPeriod, the identity has a correspondence entry and the
\* observation is composite too; in every other case they are the old
\* child shapes, moved by the translation of the blend if the identity has
\* an entry and untouched if it has none.
C16_CompositeRefresh ==
  [][ \A id \in DOMAIN tracked_models_' :
      \A matched \in {Has(correspondence', id)} :
      \A obs \in {IF matched THEN obstacles'[correspondence'[id] + 1]
                  ELSE tracked_models_[id]} :
      \A old \in {IF Has(tracked_models_, id) THEN tracked_models_[id]
                  ELSE set_id(obs, id)} :
      \A now \in {tracked_models_'[id]} :
      \A moved \in {IF matched
                    THEN Translated(old, Halved(Minus(center_point(obs),
                                                      center_point(old))))
                    ELSE old} :
        /\ now.kind = old.kind
        /\ now.id = id
        /\ IsComposite(old) =>
             IF /\ frame_cnt_' % RefreshPeriod = 0
                /\ matched
                /\ IsComposite(obs)
             THEN now.models = obs.models
             ELSE now.models = moved.models
        /\ ~IsComposite(old) => now = moved
    ]_vars

\* Frame RefreshPeriod: a confirmed composite has met a composite
\* observation of two child shapes and now has these child shapes, and with
\* them the reference point of the observation.
C16_Witness ==
  \E id \in DOMAIN correspondence :
    LET obs == obstacles[correspondence[id] + 1] IN
    /\ frame_cnt_ = RefreshPeriod
    /\ Has(model_idx_in_list_, id)
    /\ IsComposite(tracked_models_[id]) /\ IsComposite(obs)
    /\ Len(obs.models) = 2
    /\ tracked_models_[id].models = obs.models

C13_InvalidRejected ==
  [][ LET invalid == {i \in 1..Len(obstacles') :
                        ~Finite(center_point(obstacles'[i]))}
      IN /\ \A id \in DOMAIN correspondence' :
              correspondence'[id] + 1 \notin invalid
         /\ next_model_id_' - next_model_id_ <= Len(obstacles') - Cardinality(invalid)
         /\ \A id \in DOMAIN tracked_models_' :
              Finite(center_point(tracked_models_'[id]))
    ]_vars

\* C14 (streak transitions).  In every frame and for every identity
\* tracked before it: with a correspondence entry its lost-streak becomes 0,
\* its found-streak grows by exactly 1 if it is unconfirmed (and it is
\* promoted when that makes FOUND_LIMIT) and is what it was if it is
\* confirmed, however many observations matched it; without an entry its
\* found-streak becomes 0 and its lost-streak grows by exactly 1, confirmed
\* or not (and it is evicted when that makes LOST_LIMIT).  An identity
\* created in the frame ends it with found-streak 1, lost-streak 0,
\* unconfirmed.
C14_StreakTransitions ==
  [][ /\ \A id \in DOMAIN tracked_models_ :
           IF Has(correspondence', id)
           THEN /\ frames_lost_'[id] = 0
                /\ IF Has(model_idx_in_list_, id)
                   THEN /\ Has(model_idx_in_list_', id)
                        /\ Has(frames_found_', id) = Has(frames_found_, id)
                        /\ At(frames_found_', id) = At(frames_found_, id)
                   ELSE IF frames_found_[id] + 1 < FOUND_LIMIT
                   THEN /\ frames_found_'[id] = frames_found_[id] + 1
                        /\ ~Has(model_idx_in_list_', id)
                   ELSE /\ frames_found_[id] + 1 = FOUND_LIMIT
                        /\ Has(model_idx_in_list_', id)
                        /\ ~Has(frames_found_', id)
           ELSE IF frames_lost_[id] + 1 < LOST_LIMIT
           THEN /\ frames_lost_'[id] = frames_lost_[id] + 1
                /\ frames_found_'[id] = 0
                /\ Has(model_idx_in_list_', id) = Has(model_idx_in_list_, id)
           ELSE /\ frames_lost_[id] + 1 = LOST_LIMIT
                /\ ~Has(tracked_models_', id)
      /\ \A id \in (DOMAIN tracked_models_') \ (DOMAIN tracked_models_) :
           /\ frames_found_'[id] = 1
           /\ frames_lost_'[id] = 0
           /\ ~Has(model_idx_in_list_', id)
    ]_vars

\* Two observations of one frame have both matched the confirmed identity 0,
\* the only identity there has been, which had missed frames before.
C14_Witness ==
  /\ Len(obstacles) = 2
  /\ next_model_id_ = 1
  /\ correspondence = (0 :> 1)
  /\ Has(model_idx_in_list_, 0)
  /\ frames_found_ = (0 :> 0)
  /\ frames_lost_ = (0 :> 0)

\* C15 (stable output order).  The list a frame emits is the list emitted
\* by the frame before, without the identities the frame evicted and with
\* the others in the order they had, followed by the identities the frame
\* promoted; no identity is in it twice.  So promotion appends, an eviction
\* removes only its own entry, and the list is in the order of promotion.
C15_StableOrder ==
  [][ LET Kept(id) == Has(tracked_models_', id)
          kept == SelectSeq(emitted, Kept)
      IN /\ Len(emitted') >= Len(kept)
         /\ SubSeq(emitted', 1, Len(kept)) = kept
         /\ \A n \in (Len(kept) + 1)..Len(emitted') :
              /\ emitted'[n] \notin Elems(emitted)
              /\ ~Has(model_idx_in_list_, emitted'[n])
              /\ frames_found_[emitted'[n]] = FOUND_LIMIT - 1
         /\ \A id \in Elems(emitted) \ Elems(emitted') :
              frames_lost_[id] = LOST_LIMIT - 1
         /\ Cardinality(Elems(emitted')) = Len(emitted')
    ]_vars

\* Identity 0 was promoted after identities 1 and 2, and identity 1 has
\* been evicted from the head of the list since.
C15_Witness ==
  /\ emitted = <<2, 0>>
  /\ ever_emitted = {0, 1, 2}
  /\ ~Has(tracked_models_, 1)

\* The place of a member function in the order of the calls of a frame.
PlaceOf(step) == CHOOSE n \in 1..Len(steps) : steps[n] = step

C18_NoEvictAndPromote ==
  [][ \A m \in {matchToPrevious(tracked_models_, frames_found_, frames_lost_,
                                next_model_id_, obstacles')} :
      \A u \in {updateLostAndFound(m.tracked, m.found, m.lost,
                                   model_idx_in_list_, m.correspondence)} :
      \A d \in {dropLostObjects(m.tracked, u.found, u.lost,
                                materialized_models_, model_idx_in_list_)} :
        /\ \A id \in (DOMAIN u.lost) \cup (DOMAIN u.found) :
             ~(At(u.lost, id) >= LOST_LIMIT /\ At(u.found, id) >= FOUND_LIMIT)
        /\ \A id \in DOMAIN d.found :
             d.found[id] >= FOUND_LIMIT => Has(d.tracked, id)
        /\ dropped' \cap included' = {}
        /\ included' \subseteq DOMAIN tracked_models_'
        /\ \E a, b, c \in 1..Len(steps') :
             /\ a < b /\ b < c
             /\ steps'[a] = "updateLostAndFound"
             /\ steps'[b] = "dropLostObjects"
             /\ steps'[c] = "materializeFoundObjects"
    ]_vars

\* One frame has dropped one identity and materialized another.
C18_Witness ==
  /\ dropped # {}
  /\ included # {}

\* C19 as stated (tie-break).  In every reachable state and for every
\* query point of the grid: when two or more tracked models are at the
\* same least squared distance within the threshold, getMatchByDistance
\* returns the one met first in the scan, the one of the smallest identity.
C19_FirstSeenWins ==
  \A px \in QueryPoints :
    LET q == Observation(Coordinate(px, 0, 0))
        r == getMatchByDistance(tracked_models_, next_model_id_, q)
        Dist(id) == SquaredDist(center_point(tracked_models_[id]), center_point(q))
        cands == {id \in DOMAIN tracked_models_ : Dist(id) <= AcceptDist}
        best == {c \in cands : \A o \in cands : Dist(c) <= Dist(o)}
    IN Cardinality(best) >= 2 => r.id = MinKey(best)

\* C19 as amended.  The same, but it returns the one met last in the scan,
\* the one of the largest identity.
C19_LastSeenWins ==
  \A px \in QueryPoints :
    LET q == Observation(Coordinate(px, 0, 0))
        r == getMatchByDistance(tracked_models_, next_model_id_, q)
        Dist(id) == SquaredDist(center_point(tracked_models_[id]), center_point(q))
        cands == {id \in DOMAIN tracked_models_ : Dist(id) <= AcceptDist}
        best == {c \in cands : \A o \in cands : Dist(c) <= Dist(o)}
    IN Cardinality(best) >= 2 =>
         /\ r.id \in best
         /\ \A c \in best : c <= r.id
         /\ r.next = next_model_id_

\* The one observation of frame 2 was as far from identity 0 as from
\* identity 1, at the threshold, and has been matched to identity 1 (the
\* blend has since halved its distance to that one).
C19_Witness ==
  /\ frame_cnt_ = 2
  /\ next_model_id_ = 2
  /\ Len(obstacles) = 1
  /\ correspondence = (1 :> 0)
  /\ DOMAIN tracked_models_ = {0, 1}
  /\ SquaredDist(center_point(tracked_models_[0]), center_point(obstacles[1]))
       = AcceptDist
  /\ 4 * SquaredDist(center_point(tracked_models_[1]), center_point(obstacles[1]))
       = AcceptDist

\* C20: at the end of every frame every tracked model has a lost count in
\* 0..LOST_LIMIT-1; every tracked model that is not materialized has a seen
\* count in 0..FOUND_LIMIT-1; every materialized model has no seen count or a
\* seen count of 0; and no model has a seen count and a lost count that are
\* both greater than 0.
C20_CounterBounds ==
  /\ \A model_id \in DOMAIN tracked_models_ :
       /\ Has(frames_lost_, model_id)
       /\ frames_lost_[model_id] \in 0..(LOST_LIMIT - 1)
       /\ ~Has(model_idx_in_list_, model_id) =>
            /\ Has(frames_found_, model_id)
            /\ frames_found_[model_id] \in 0..(FOUND_LIMIT - 1)
       /\ Has(model_idx_in_list_, model_id) =>
            \/ ~Has(frames_found_, model_id)
            \/ frames_found_[model_id] = 0
  /\ \A model_id \in (DOMAIN frames_found_) \cup (DOMAIN frames_lost_) :
       ~(At(frames_found_, model_id) > 0 /\ At(frames_lost_, model_id) > 0)

\* A materialized model that has been missed, with a zero seen count, next to
\* a model one frame short of materialization.
C20_Witness ==
  /\ \E model_id \in DOMAIN model_idx_in_list_ :
       /\ Has(frames_found_, model_id)
       /\ frames_found_[model_id] = 0
       /\ At(frames_lost_, model_id) > 0
  /\ \E model_id \in DOMAIN tracked_models_ :
       /\ ~Has(model_idx_in_list_, model_id)
       /\ At(frames_found_, model_id) = FOUND_LIMIT - 1

\* C21: at the end of every frame the keys of frames_lost_ are the keys of
\* tracked_models_; the keys of frames_found_ are keys of tracked_models_ and
\* include every tracked model that is not materialized; the keys of
\* model_idx_in_list_ are keys of tracked_models_; every model that
\* materializeFoundObjects looked up in the frame is tracked, and every model
\* of the correspondence that adaptTracked looked up was tracked when it ran
\* (it is tracked still, or dropLostObjects dropped it later in the frame).
C21_MirroredMaps ==
  /\ DOMAIN frames_lost_ = DOMAIN tracked_models_
  /\ DOMAIN frames_found_ \subseteq DOMAIN tracked_models_
  /\ (DOMAIN tracked_models_) \ (DOMAIN model_idx_in_list_) \subseteq DOMAIN frames_found_
  /\ DOMAIN model_idx_in_list_ \subseteq DOMAIN tracked_models_
  /\ included \subseteq DOMAIN tracked_models_
  /\ DOMAIN correspondence \subseteq (DOMAIN tracked_models_) \cup dropped

\* A frame that drops one model and materializes another, which it matched:
\* the dropped model has left every map, the materialized one has left
\* frames_found_ only.
C21_Witness ==
  /\ dropped # {}
  /\ dropped \cap DOMAIN frames_lost_ = {}
  /\ \E model_id \in included :
       /\ Has(correspondence, model_id)
       /\ Has(tracked_models_, model_id)
       /\ Has(model_idx_in_list_, model_id)
       /\ ~Has(frames_found_, model_id)

====
